---- MODULE Spec2Model ----
(***************************************************************************)
(* Model of the crop recommendation engine of src/src/main.jsx             *)
(* (computeRecommendations, scoreCrop, prefBonus and the cropBank table).  *)
(*                                                                         *)
(* Numbers are fixed-point integers, so that the decimal arithmetic of the *)
(* source is exact:                                                        *)
(*   ph, area, baseYield, yields : tenths          (6.5  is 65)            *)
(*   temperature                 : tenths of a degree (26 is 260)          *)
(*   rainfall                    : millimetres                             *)
(*   scores and score terms      : 1/100000        (0.28 is 28000)         *)
(* The source computes in IEEE-754 doubles; the model evaluates the same   *)
(* expressions exactly, so a property is stated so as not to depend on how *)
(* a rounding tie falls.                                                   *)
(* Strings that the code only compares are TLA+ strings; soilType, which   *)
(* the code lower-cases and searches, is a sequence of characters.         *)
(***************************************************************************)
EXTENDS Integers, Sequences, FiniteSets, TLC

\* The scoring engine applied to one scenario
VARIABLES scn, called, terms, scored, recs

\* The application: React state of CropRecApp, the browser's localStorage,
\* and what is pending (state updates queued by the mount effects, the
\* 500 ms timer, the history effect)
VARIABLES phase, strict, inputs, loading, results, history, savedScenarios,
          storageH, storageS, queuedH, queuedS, timer, effectPending,
          clock, runs

\* What the properties refer to: the result of every call of
\* computeRecommendations, the crop table the last call built, the history
\* stored when the application started, the entries clearHistory removed
\* while a run was pending, the number of times clearHistory ran
VARIABLES log, bank, bootH, cleared, clears

\* Uploads: the handleUploadFile calls made, the FileReader that is reading
\* a file (with the closure of its onload callback), the last message shown
\* by alert
VARIABLES uploads, reader, alerts

\* The compare drawer, line 71
VARIABLES compare

scoreVars == <<scn, called, terms, scored, recs>>

appVars == <<phase, strict, inputs, loading, results, history, savedScenarios,
             storageH, storageS, queuedH, queuedS, timer, effectPending,
             clock, runs, log, bank, bootH, cleared, clears,
                 uploads, reader, alerts, compare>>

vars == <<scoreVars, appVars>>

----------------------------------------------------------------------------
(* Arithmetic helpers                                                      *)

Abs(x) == IF x < 0 THEN -x ELSE x

Max(a, b) == IF a >= b THEN a ELSE b

Min(a, b) == IF a <= b THEN a ELSE b

\* Math.round(num / den) for den > 0: the nearest integer, a tie going
\* towards +Infinity (\div is the floor division).
MathRound(num, den) == (2 * num + den) \div (2 * den)

\* One unit of score: 1.0
ONE == 100000

----------------------------------------------------------------------------
(* The crop table, main.jsx lines 130-137                                  *)

cropBank ==
  << [name |-> "Wheat",   ph |-> <<60, 75>>, temp |-> <<100, 250>>, rainfall |-> <<300, 900>>,
      seasons |-> {"Rabi"},           baseYield |-> 30, fertilizer |-> "NPK 20-20-0",        water |-> "Medium"],
     [name |-> "Rice",    ph |-> <<55, 70>>, temp |-> <<200, 350>>, rainfall |-> <<1000, 2000>>,
      seasons |-> {"Kharif"},         baseYield |-> 40, fertilizer |-> "NPK 16-16-8",        water |-> "High"],
     [name |-> "Maize",   ph |-> <<55, 75>>, temp |-> <<180, 320>>, rainfall |-> <<500, 1200>>,
      seasons |-> {"Kharif", "Rabi"}, baseYield |-> 55, fertilizer |-> "NPK 18-46-0",        water |-> "Medium"],
     [name |-> "Cotton",  ph |-> <<55, 75>>, temp |-> <<200, 350>>, rainfall |-> <<500, 1500>>,
      seasons |-> {"Kharif"},         baseYield |-> 22, fertilizer |-> "NPK 10-26-26",       water |-> "Medium"],
     [name |-> "Mustard", ph |-> <<60, 75>>, temp |-> <<50, 250>>,  rainfall |-> <<200, 600>>,
      seasons |-> {"Rabi"},           baseYield |-> 11, fertilizer |-> "NPK 15-15-15",       water |-> "Low"],
     [name |-> "Pulses",  ph |-> <<60, 75>>, temp |-> <<150, 300>>, rainfall |-> <<400, 800>>,
      seasons |-> {"Rabi", "Kharif"}, baseYield |-> 14, fertilizer |-> "DAP + Urea (split)", water |-> "Low"] >>

CropNames == {cropBank[i].name : i \in 1..Len(cropBank)}

\* Position of a crop name in the table
TableIndex(n) == CHOOSE i \in 1..Len(cropBank) : cropBank[i].name = n

CropNamed(n) == cropBank[TableIndex(n)]

----------------------------------------------------------------------------
(* soilType.toLowerCase().includes("loam"), main.jsx line 159              *)

UpperCase == <<"A","B","C","D","E","F","G","H","I","J","K","L","M",
               "N","O","P","Q","R","S","T","U","V","W","X","Y","Z">>

LowerCase == <<"a","b","c","d","e","f","g","h","i","j","k","l","m",
               "n","o","p","q","r","s","t","u","v","w","x","y","z">>

toLowerCaseChar(ch) ==
  IF \E k \in 1..26 : UpperCase[k] = ch
  THEN LowerCase[CHOOSE k \in 1..26 : UpperCase[k] = ch]
  ELSE ch

toLowerCase(str) == [k \in 1..Len(str) |-> toLowerCaseChar(str[k])]

includes(str, sub) ==
  \E k \in 0..(Len(str) - Len(sub)) :
     \A j \in 1..Len(sub) : str[k + j] = sub[j]

Loam == <<"l","o","a","m">>

----------------------------------------------------------------------------
(* Weights and divisors of scoreCrop and prefBonus                         *)

PhWeight == 28000

TempWeight == 24000

RainWeight == 24000

SeasonWeight == 16000

LoamBonus == 5000

LowWaterBonus == 8000

HighYieldBonus == 6000

ShortDurationBonus == 6000

MarketDemandBonus == 4000

\* baseYield threshold of the 'High yield' rule, 3.5 in tenths
HighYieldMin == 35

PhDivisor == 10

TempDivisor == 50

RainDivisor == 2000

\* Units of the measured values: ph and temperature are kept in tenths,
\* rainfall in whole millimetres.
PhUnit == 10

TempUnit == 10

RainUnit == 1

\* rangeTerm with the ideal range taken as open: v > r[0] && v < r[1]
rangeTerm_exclusive(v, r, weight, unit, divisor) ==
  IF v > r[1] /\ v < r[2]
  THEN weight
  ELSE Max(0, weight - (Abs(r[1] + r[2] - 2 * v) * ONE) \div (2 * unit * divisor))

\* The three range terms share one shape (lines 150, 153, 156):
\*   if (v >= r[0] && v <= r[1]) weight
\*   else Math.max(0, weight - Math.abs((r[0] + r[1]) / 2 - v) / divisor)
\* |(lo + hi)/2 - v| / divisor is (|lo + hi - 2v| * ONE) / (2 * unit * divisor)
\* in score units; the division is exact for every value on the input grid.
rangeTerm(v, r, weight, unit, divisor) ==
  IF v >= r[1] /\ v <= r[2]
  THEN weight
  ELSE Max(0, weight - (Abs(r[1] + r[2] - 2 * v) * ONE) \div (2 * unit * divisor))

phTerm(crop, in) == rangeTerm(in.ph, crop.ph, PhWeight, PhUnit, PhDivisor)

tempTerm(crop, in) == rangeTerm(in.temperature, crop.temp, TempWeight, TempUnit, TempDivisor)

rainTerm(crop, in) == rangeTerm(in.rainfall, crop.rainfall, RainWeight, RainUnit, RainDivisor)

\* The season term with the test crop.ideal.seasons.length in place of
\* crop.ideal.seasons.includes(season)
seasonTerm_anySeason(crop, in) == IF crop.seasons # {} THEN SeasonWeight ELSE 0

\* line 158
seasonTerm(crop, in) == IF in.season \in crop.seasons THEN SeasonWeight ELSE 0

\* The soil bonus without toLowerCase(): soilType.includes("loam")
soilTerm_caseSensitive(crop, in) == IF includes(in.soilType, Loam) THEN LoamBonus ELSE 0

\* line 159
soilTerm(crop, in) == IF includes(toLowerCase(in.soilType), Loam) THEN LoamBonus ELSE 0

\* prefBonus with the 'High yield' threshold 3.0 instead of 3.5
prefBonus_yield30(crop, in) ==
  IF in.preference = "Low water" /\ crop.water = "Low" THEN LowWaterBonus
  ELSE IF in.preference = "High yield" /\ crop.baseYield >= 30 THEN HighYieldBonus
  ELSE IF in.preference = "Short duration" /\ crop.name \in {"Pulses", "Maize"} THEN ShortDurationBonus
  ELSE IF in.preference = "Market demand" /\ crop.name \in {"Rice", "Wheat", "Cotton"} THEN MarketDemandBonus
  ELSE 0

\* lines 139-145: the first rule that matches decides
prefBonus(crop, in) ==
  IF in.preference = "Low water" /\ crop.water = "Low" THEN LowWaterBonus
  ELSE IF in.preference = "High yield" /\ crop.baseYield >= HighYieldMin THEN HighYieldBonus
  ELSE IF in.preference = "Short duration" /\ crop.name \in {"Pulses", "Maize"} THEN ShortDurationBonus
  ELSE IF in.preference = "Market demand" /\ crop.name \in {"Rice", "Wheat", "Cotton"} THEN MarketDemandBonus
  ELSE 0

\* scoreTerms with line 160 (score += prefBonus(crop)) left out
scoreTerms_noPref(crop, in) ==
  [ph |-> phTerm(crop, in), temp |-> tempTerm(crop, in), rain |-> rainTerm(crop, in),
   season |-> seasonTerm(crop, in), soil |-> soilTerm(crop, in), pref |-> 0]

\* The six amounts that lines 150-160 add to the local variable score
scoreTerms(crop, in) ==
  [ph |-> phTerm(crop, in), temp |-> tempTerm(crop, in), rain |-> rainTerm(crop, in),
   season |-> seasonTerm(crop, in), soil |-> soilTerm(crop, in), pref |-> prefBonus(crop, in)]

\* The value of the local variable score at line 162, before the clamp
rawScore(crop, in) ==
  LET t == scoreTerms(crop, in)
  IN  t.ph + t.temp + t.rain + t.season + t.soil + t.pref

\* clampScore without the clamp: score: score
clampScore_unclamped(raw) == raw

\* line 164: score: Math.min(1, score)
clampScore(raw) == Min(ONE, raw)

\* line 162: Math.round((crop.baseYield * (1 + score * 0.4)) * 10) / 10,
\* in hundredths of a tonne per hectare
expectedYieldPerHa(crop, raw) ==
  MathRound(crop.baseYield * (10 * ONE + 4 * raw), 10 * ONE) * 10

\* line 163: Math.round(expectedYieldPerHa * area * 10) / 10, in hundredths
expectedYieldOf(perHa, area) == MathRound(perHa * area, 100) * 10

\* scoreCrop with the yield derived from the clamped score
scoreCrop_clampedYield(crop, in) ==
  LET raw   == rawScore(crop, in)
      perHa == expectedYieldPerHa(crop, clampScore(raw))
  IN  [score |-> clampScore(raw),
       expectedYield |-> expectedYieldOf(perHa, in.area),
       expectedYieldValue |-> perHa] @@ crop

\* lines 147-165; { ...crop, score, expectedYield, expectedYieldValue }
scoreCrop(crop, in) ==
  LET raw   == rawScore(crop, in)
      perHa == expectedYieldPerHa(crop, raw)
  IN  [score |-> clampScore(raw),
       expectedYield |-> expectedYieldOf(perHa, in.area),
       expectedYieldValue |-> perHa] @@ crop

\* cropBank.map(scoreCrop)
mapScoreCrop(in) == [i \in 1..Len(cropBank) |-> scoreCrop(cropBank[i], in)]

\* The comparator reversed: (a, b) => a.score - b.score
compareScore_ascending(a, b) == a.score - b.score

\* The comparator of line 167: (a, b) => b.score - a.score
compareScore(a, b) == b.score - a.score

\* An unstable sort: an element goes before the elements it ties with
RECURSIVE insertSorted_beforeEqual(_, _)
insertSorted_beforeEqual(sorted, x) ==
  IF sorted = <<>> THEN <<x>>
  ELSE IF compareScore(Head(sorted), x) < 0
       THEN <<Head(sorted)>> \o insertSorted_beforeEqual(Tail(sorted), x)
       ELSE <<x>> \o sorted

\* Array.prototype.sort is stable: an element goes after every element the
\* comparator does not put behind it.
RECURSIVE insertSorted(_, _)
insertSorted(sorted, x) ==
  IF sorted = <<>> THEN <<x>>
  ELSE IF compareScore(Head(sorted), x) <= 0
       THEN <<Head(sorted)>> \o insertSorted(Tail(sorted), x)
       ELSE <<x>> \o sorted

RECURSIVE sortFrom(_, _)
sortFrom(arr, sorted) ==
  IF arr = <<>> THEN sorted
  ELSE sortFrom(Tail(arr), insertSorted(sorted, Head(arr)))

\* sort with a comparator that orders equal scores by the time of the call
sort_timeTies(arr) ==
  IF clock % 2 = 1
  THEN sortFrom([i \in 1..Len(arr) |-> arr[Len(arr) + 1 - i]], <<>>)
  ELSE sortFrom(arr, <<>>)

\* Array.prototype.sort with compareScore: stable
sort(arr) == sortFrom(arr, <<>>)

\* slice with the end index taken as inclusive
slice_inclusiveEnd(arr, n) == SubSeq(arr, 1, Min(n + 1, Len(arr)))

\* .slice(0, n)
slice(arr, n) == SubSeq(arr, 1, Min(n, Len(arr)))

TopN == 3

\* computeRecommendations as the hardened variant the specification
\* describes: area <= 0, negative rainfall or a pH outside 0..14 is rejected
\* and nothing is returned
computeRecommendations_validating(in) ==
  IF in.area <= 0 \/ in.rainfall < 0 \/ in.ph < 0 \/ in.ph > 140
  THEN <<>>
  ELSE slice(sort(mapScoreCrop(in)), TopN)

\* line 167
computeRecommendations(in) == slice(sort(mapScoreCrop(in)), TopN)

----------------------------------------------------------------------------
(* The scenarios the engine is applied to                                  *)

\* ph in tenths: the endpoints of the ideal ranges, the default 6.5 and the
\* out-of-domain value 20
PhValues == {55, 60, 65, 70, 75, 200}

\* temperature in tenths of a degree
TempValues == {-100, 50, 250, 260, 350}

\* rainfall in millimetres
RainValues == {-100, 200, 300, 600, 1000, 2000}

\* area in tenths of a hectare
AreaValues == {-15, 10, 25}

SoilTypes == { <<"L","o","a","m">>, <<"C","l","a","y">>,
               <<"S","a","n","d","y"," ","L","O","A","M">> }

Seasons == {"Kharif", "Rabi", "Zaid"}

Preferences == {"High yield", "Low water", "Short duration", "Market demand", "Organic"}

Scenarios ==
  [ph : PhValues, temperature : TempValues, rainfall : RainValues,
   soilType : SoilTypes, area : AreaValues, season : Seasons, preference : Preferences]

\* The form's initial values, lines 51-62
DefaultScenario ==
  [ph |-> 65, temperature |-> 260, rainfall |-> 300, soilType |-> <<"L","o","a","m">>,
   area |-> 10, season |-> "Kharif", preference |-> "High yield"]

----------------------------------------------------------------------------------------------------------------------------------------
(* The scoring engine as a state machine: a scenario is chosen and         *)
(* computeRecommendations is applied to it.  terms holds, for each crop   *)
(* of the table, the amounts scoreCrop added to its score; scored is the   *)
(* array cropBank.map(scoreCrop) built at line 167, recs the value         *)
(* returned.                                                               *)

\* The form's initial values with the fields the engine does not read
InitialInputs ==
  [location |-> "Agra, IN", area |-> 10, soilType |-> <<"L","o","a","m">>, ph |-> 65,
   soilMoisture |-> 30, temperature |-> 260, rainfall |-> 300, irrigation |-> "Canal",
   season |-> "Kharif", preference |-> "High yield"]

\* CropRecApp as constructed (the useState initial values of lines 46-71),
\* with nothing stored, queued or pending
AppCreated ==
  /\ phase = "created"
  /\ inputs = InitialInputs
  /\ loading = FALSE
  /\ results = <<>>
  /\ history = <<>>
  /\ savedScenarios = <<>>
  /\ queuedH = <<>>
  /\ queuedS = <<>>
  /\ timer = <<>>
  /\ effectPending = FALSE
  /\ clock = 0
  /\ runs = 0
  /\ log = <<>>
  /\ bank = <<>>
  /\ cleared = {}
  /\ clears = 0
  /\ uploads = 0
  /\ reader = <<>>
  /\ alerts = <<>>
  /\ compare = [open |-> FALSE, items |-> <<>>]

InitScore ==
  /\ scn \in Scenarios
  /\ called = FALSE
  /\ terms = <<>>
  /\ scored = <<>>
  /\ recs = <<>>
  /\ AppCreated
  /\ strict = FALSE
  /\ storageH = <<>>
  /\ storageS = <<>>
  /\ bootH = <<>>

Recommend ==
  /\ ~called
  /\ called' = TRUE
  /\ terms' = [i \in 1..Len(cropBank) |-> scoreTerms(cropBank[i], scn)]
  /\ scored' = mapScoreCrop(scn)
  /\ recs' = computeRecommendations(scn)
  /\ UNCHANGED scn
  /\ UNCHANGED appVars

NextScore == Recommend

SpecScore == InitScore /\ [][NextScore]_vars

----------------------------------------------------------------------------
(* Properties of the scoring engine                                        *)

Returned == {recs[i].name : i \in 1..Len(recs)}

\* Position of a crop in the returned sequence
RankOf(n) == CHOOSE i \in 1..Len(recs) : recs[i].name = n

\* C1: every crop returned by computeRecommendations has a reported score
\* in the closed interval [0, 1].
C1_ScoreInUnitInterval ==
  \A i \in 1..Len(recs) : recs[i].score >= 0 /\ recs[i].score <= ONE

\* A returned crop whose raw score exceeds 1 and is reported as exactly 1,
\* next to a returned crop below 1
C1_Witness ==
  /\ called
  /\ \E i \in 1..Len(recs) :
        rawScore(CropNamed(recs[i].name), scn) > ONE /\ recs[i].score = ONE
  /\ \E i \in 1..Len(recs) : recs[i].score < ONE

\* C2: the returned sequence is ordered by non-increasing reported score,
\* returned crops of equal score keep the order of the crop table, and no
\* crop left out has a higher score than a returned crop.
C2_RankedStable ==
  called =>
    /\ \A i, j \in 1..Len(recs) :
          i < j => /\ recs[i].score >= recs[j].score
                   /\ recs[i].score = recs[j].score
                        => TableIndex(recs[i].name) < TableIndex(recs[j].name)
    /\ \A k \in 1..Len(scored) :
          scored[k].name \notin Returned
            => \A i \in 1..Len(recs) : scored[k].score <= recs[i].score

\* Two returned crops tie, a later crop of the table outscores an earlier
\* one, and a crop is left out with a strictly lower score
C2_Witness ==
  /\ called
  /\ \E i \in 1..(Len(recs) - 1) : recs[i].score = recs[i + 1].score
  /\ \E i \in 1..(Len(recs) - 1) :
        /\ recs[i].score > recs[i + 1].score
        /\ TableIndex(recs[i].name) > TableIndex(recs[i + 1].name)
  /\ \E k \in 1..Len(scored) :
        scored[k].name \notin Returned /\ scored[k].score < recs[Len(recs)].score

\* C3: computeRecommendations returns exactly 3 entries (min(3, table size)),
\* with distinct crop names taken from the table.
C3_ExactlyThreeDistinct ==
  called =>
    /\ Len(recs) = 3
    /\ Len(recs) = Min(3, Len(cropBank))
    /\ \A i \in 1..Len(recs) : recs[i].name \in CropNames
    /\ \A i, j \in 1..Len(recs) : i # j => recs[i].name # recs[j].name

\* A call on a scenario in which every crop scores 0 on the three measured
\* values still returns three crops
C3_Witness ==
  /\ called
  /\ Len(recs) = 3
  /\ scn.ph = 200 /\ scn.temperature = -100 /\ scn.rainfall = -100

\* The claimed value of a range term, stated without division: t is the
\* term of value v (in units of 1/unit) for the ideal range r, weight w and
\* divisor d.  Twice the distance to the midpoint is |r[1] + r[2] - 2v|.
IsRangeTerm(t, v, r, w, unit, d) ==
  LET left == w * 2 * unit * d - Abs(r[1] + r[2] - 2 * v) * ONE
  IN  /\ (v >= r[1] /\ v <= r[2]) => t = w
      /\ ~(v >= r[1] /\ v <= r[2]) =>
            IF left <= 0 THEN t = 0 ELSE t * 2 * unit * d = left
      /\ t >= 0 /\ t <= w

\* C4: for each crop, the ph term (weight 0.28, divisor 10), the temperature
\* term (0.24, 50) and the rainfall term (0.24, 2000) equal the full weight
\* when the value lies in the crop's ideal range, endpoints included, and
\* max(0, weight - |midpoint - value| / divisor) otherwise; every term lies
\* in [0, weight].
C4_RangeTerms ==
  called =>
    \A i \in 1..Len(cropBank) :
      LET crop == cropBank[i] IN
        /\ IsRangeTerm(terms[i].ph, scn.ph, crop.ph, 28000, 10, 10)
        /\ IsRangeTerm(terms[i].temp, scn.temperature, crop.temp, 24000, 10, 50)
        /\ IsRangeTerm(terms[i].rain, scn.rainfall, crop.rainfall, 24000, 1, 2000)

\* Wheat scored with ph at the upper endpoint 7.5 of its range, rainfall at
\* the lower endpoint 300, and temperature 26 outside the range, where the
\* term has decayed to 0.07; Rice's rainfall term is floored at 0
C4_Witness ==
  /\ called
  /\ scn.ph = cropBank[1].ph[2]
  /\ scn.rainfall = cropBank[1].rainfall[1]
  /\ terms[1].ph = 28000
  /\ terms[1].rain = 24000
  /\ terms[1].temp = 7000
  /\ terms[2].rain = 0

\* The four rules of the preference bonus, as the claim states them
Rule1(pref, crop) == pref = "Low water" /\ crop.water = "Low"

Rule2(pref, crop) == pref = "High yield" /\ crop.baseYield >= 35

Rule3(pref, crop) == pref = "Short duration" /\ crop.name \in {"Pulses", "Maize"}

Rule4(pref, crop) == pref = "Market demand" /\ crop.name \in {"Rice", "Wheat", "Cotton"}

RulesApplying(pref, crop) ==
  {k \in 1..4 : \/ k = 1 /\ Rule1(pref, crop)
                \/ k = 2 /\ Rule2(pref, crop)
                \/ k = 3 /\ Rule3(pref, crop)
                \/ k = 4 /\ Rule4(pref, crop)}

\* C5: the preference bonus is one of 0, 0.04, 0.06, 0.08, decided by the
\* first rule that matches, 0 when none does (an unknown preference
\* included), and at most one rule applies to a (preference, crop) pair.
C5_PrefBonusRules ==
  called =>
    \A i \in 1..Len(cropBank) :
      LET crop  == cropBank[i]
          bonus == terms[i].pref
          rules == RulesApplying(scn.preference, crop)
      IN  /\ bonus \in {0, 4000, 6000, 8000}
          /\ Cardinality(rules) <= 1
          /\ 1 \in rules => bonus = 8000
          /\ 2 \in rules => bonus = 6000
          /\ 3 \in rules => bonus = 6000
          /\ 4 \in rules => bonus = 4000
          /\ rules = {} => bonus = 0

\* 'High yield' scored: Rice and Maize get 0.06, Wheat (baseYield 3.0) and
\* the others get 0
C5_Witness ==
  /\ called
  /\ scn.preference = "High yield"
  /\ terms[2].pref = 6000 /\ terms[3].pref = 6000
  /\ terms[1].pref = 0

\* The sum of the amounts added to a crop's score: its raw score
SumTerms(t) == t.ph + t.temp + t.rain + t.season + t.soil + t.pref

LowWaterCrops == {i \in 1..Len(cropBank) : cropBank[i].water = "Low"}

\* The scenario scored, with another preference
WithPreference(p) == [scn EXCEPT !.preference = p]

\* The scenario scored, with another season
WithSeason(se) == [scn EXCEPT !.season = se]

\* C6 as stated: with preference 'Low water', every crop whose water need is
\* Low has a reported score 0.08 higher than in the otherwise-identical
\* scenario with any other preference.
C6_Original ==
  (called /\ scn.preference = "Low water") =>
    \A i \in LowWaterCrops : \A p \in Preferences \ {"Low water"} :
       scored[i].score = scoreCrop(cropBank[i], WithPreference(p)).score + 8000

\* C6 amended: with preference 'Low water', every crop whose water need is
\* Low (Mustard, Pulses) gets the preference bonus 0.08, and its raw score
\* is 0.08 higher than in the otherwise-identical scenario with any other
\* preference, except Pulses against 'Short duration', where it is 0.02
\* higher; the reported score is the raw score clamped at 1, so it is higher
\* by the same amount only while the raw score does not exceed 1.
C6_LowWaterBonus ==
  (called /\ scn.preference = "Low water") =>
    /\ {cropBank[i].name : i \in LowWaterCrops} = {"Mustard", "Pulses"}
    /\ \A i \in LowWaterCrops : \A p \in Preferences \ {"Low water"} :
         LET other == scoreCrop(cropBank[i], WithPreference(p))
             otherRaw == rawScore(cropBank[i], WithPreference(p))
             gain == IF cropBank[i].name = "Pulses" /\ p = "Short duration"
                     THEN 2000 ELSE 8000
         IN  /\ terms[i].pref = 8000
             /\ SumTerms(terms[i]) = otherRaw + gain
             /\ scored[i].score = Min(ONE, otherRaw + gain)
             /\ SumTerms(terms[i]) <= ONE => scored[i].score = other.score + gain

\* 'Low water' scored where Pulses' raw score is 1.05, reported as 1, and
\* Mustard's stays below 1
C6_Witness ==
  /\ called
  /\ scn.preference = "Low water"
  /\ SumTerms(terms[TableIndex("Pulses")]) = 105000
  /\ scored[TableIndex("Pulses")].score = ONE
  /\ SumTerms(terms[TableIndex("Mustard")]) < ONE
  /\ scored[TableIndex("Mustard")].score = SumTerms(terms[TableIndex("Mustard")])

\* C7: with season 'Rabi', Rice's season term is 0 and Rice's reported score
\* is strictly lower than in the identical scenario with season 'Kharif'.
C7_RiceRabiLower ==
  (called /\ scn.season = "Rabi") =>
    LET rice == TableIndex("Rice") IN
      /\ terms[rice].season = 0
      /\ scored[rice].score < scoreCrop(cropBank[rice], WithSeason("Kharif")).score

\* 'Rabi' scored where Rice reaches 0.87, and 'Kharif' would take its raw
\* score to 1.03, reported as 1
C7_Witness ==
  /\ called
  /\ scn.season = "Rabi"
  /\ scored[TableIndex("Rice")].score = 87000
  /\ rawScore(CropNamed("Rice"), WithSeason("Kharif")) = 103000
  /\ scoreCrop(CropNamed("Rice"), WithSeason("Kharif")).score = ONE

\* C8: in the scenario ph 6.5, temperature 26, rainfall 300, 'Loam', area 1.0,
\* 'Kharif', 'High yield', Maize scores higher than Mustard, Mustard does not
\* precede Maize in the result and is not returned while Maize is left out.
C8_MaizeAboveMustard ==
  (called /\ scn = DefaultScenario) =>
    /\ scored[TableIndex("Maize")].score > scored[TableIndex("Mustard")].score
    /\ "Mustard" \in Returned =>
          "Maize" \in Returned /\ RankOf("Maize") < RankOf("Mustard")

\* The scenario scored: Maize is returned with 0.79, Mustard (0.59) is not
C8_Witness ==
  /\ called
  /\ scn = DefaultScenario
  /\ "Maize" \in Returned /\ "Mustard" \notin Returned
  /\ scored[TableIndex("Maize")].score = 79000
  /\ scored[TableIndex("Mustard")].score = 59000

\* The scenario of C9: any area and preference
IsC9Scenario ==
  /\ scn.ph = 65 /\ scn.temperature = 260 /\ scn.rainfall = 300
  /\ scn.soilType = <<"L","o","a","m">> /\ scn.season = "Kharif"

\* C9 as stated: in that scenario Maize's pH, temperature and rainfall terms
\* are the full weights 0.28, 0.24, 0.24, next to the season term 0.16 and
\* the loam bonus 0.05.
C9_Original ==
  (called /\ IsC9Scenario) =>
    LET t == terms[TableIndex("Maize")] IN
      /\ t.ph = 28000 /\ t.temp = 24000 /\ t.rain = 24000
      /\ t.season = 16000 /\ t.soil = 5000

\* C9 amended: in that scenario Maize fits two of the three ideal ranges:
\* its pH and temperature terms are the full weights 0.28 and 0.24, while
\* rainfall 300 is below Maize's ideal range [500, 1200] and the rainfall
\* term is 0; the season term is 0.16 and the loam bonus 0.05.
C9_MaizeTerms ==
  (called /\ IsC9Scenario) =>
    LET maize == TableIndex("Maize")
        t == terms[maize]
    IN  /\ t.ph = 28000 /\ t.temp = 24000
        /\ scn.rainfall < cropBank[maize].rainfall[1]
        /\ t.rain = 0
        /\ t.season = 16000 /\ t.soil = 5000
        /\ scored[maize].score = 73000 + t.pref

\* The scenario scored with 'High yield': Maize's score is 0.79
C9_Witness ==
  /\ called
  /\ IsC9Scenario
  /\ scn.preference = "High yield"
  /\ terms[TableIndex("Maize")].rain = 0
  /\ recs[3].name = "Maize" /\ recs[3].score = 79000

\* C10: for every returned crop, the per-hectare yield is
\* baseYield x (1 + rawScore x 0.4) rounded to one decimal place, rawScore
\* the unclamped sum of the terms, and the total yield is that rounded value
\* x area rounded to one decimal place; both are multiples of 0.1.
\* Yields are in hundredths; "rounded" is: a multiple of 0.1 at most 0.05
\* away from the exact value.
C10_YieldRounded ==
  called =>
    \A i \in 1..Len(recs) :
      LET k     == TableIndex(recs[i].name)
          raw   == SumTerms(terms[k])
          perHa == recs[i].expectedYieldValue
          total == recs[i].expectedYield
      IN  /\ perHa % 10 = 0
          /\ total % 10 = 0
          \* perHa / 100 against baseYield / 10 * (1 + raw / ONE * 0.4)
          /\ Abs(perHa * ONE - cropBank[k].baseYield * (10 * ONE + 4 * raw)) <= 5 * ONE
          \* total / 100 against perHa / 100 * area / 10
          /\ Abs(total * 10 - perHa * scn.area) <= 50

\* Maize returned with raw score 1.03 on 2.5 ha: 7.8 t/ha (7.7 from the
\* clamped score) and 19.5 t
C10_Witness ==
  /\ called
  /\ scn.area = 25
  /\ \E i \in 1..Len(recs) :
        /\ recs[i].name = "Maize"
        /\ SumTerms(terms[TableIndex("Maize")]) = 103000
        /\ recs[i].expectedYieldValue = 780
        /\ recs[i].expectedYield = 1950

\* C11: the yield uplift is capped at 40%: for every crop and every input,
\* the per-hectare yield before rounding, baseYield x (1 + raw x 0.4), does
\* not exceed baseYield x 1.4; equivalently the raw score used for the
\* yield does not exceed 1.
C11_UpliftCapped ==
  called =>
    \A i \in 1..Len(cropBank) :
      LET raw == SumTerms(terms[i]) IN
        /\ raw <= ONE
        /\ cropBank[i].baseYield * (10 * ONE + 4 * raw) <= cropBank[i].baseYield * 14 * ONE

\* C14: computeRecommendations has no error outcome: whatever the input,
\* out-of-domain numbers and labels matching no crop included, it returns
\* three of the six scored crops, each with a score in [0, 1].
C14_NoRejection ==
  called =>
    /\ Len(scored) = Len(cropBank)
    /\ Len(recs) = 3
    /\ \A i \in 1..Len(recs) :
          /\ \E k \in 1..Len(scored) : recs[i] = scored[k]
          /\ recs[i].score \in 0..ONE

\* ph 20, -10 degrees, negative rainfall, negative area, a season and a
\* preference that match no crop, no loam: every crop scores 0 and the
\* first three of the table are returned
C14_Witness ==
  /\ called
  /\ scn.ph = 200 /\ scn.temperature = -100 /\ scn.rainfall = -100 /\ scn.area = -15
  /\ scn.season = "Zaid" /\ scn.preference = "Organic"
  /\ scn.soilType = <<"C","l","a","y">>
  /\ Len(recs) = 3
  /\ \A i \in 1..3 : recs[i].score = 0 /\ recs[i].name = cropBank[i].name

----------------------------------------------------------------------------
(* Text handling of the application: form values and file contents arrive  *)
(* as text, modelled as sequences of one-character strings.                *)

Digits == <<"0","1","2","3","4","5","6","7","8","9">>

IsDigit(ch) == \E d \in 1..10 : Digits[d] = ch

DigitValue(ch) == (CHOOSE d \in 1..10 : Digits[d] = ch) - 1

IsSpace(ch) == ch \in {" ", "\t", "\r", "\n"}

\* The characters of a sequence as one string
RECURSIVE Join(_)
Join(cs) == IF cs = <<>> THEN "" ELSE Head(cs) \o Join(Tail(cs))

RECURSIVE TrimLeft(_)
TrimLeft(cs) ==
  IF cs # <<>> /\ IsSpace(Head(cs)) THEN TrimLeft(Tail(cs)) ELSE cs

RECURSIVE TrimRight(_)
TrimRight(cs) ==
  IF cs # <<>> /\ IsSpace(cs[Len(cs)]) THEN TrimRight(SubSeq(cs, 1, Len(cs) - 1)) ELSE cs

\* String.prototype.trim
trim(cs) == TrimRight(TrimLeft(cs))

\* Value of a sequence of digits
RECURSIVE DigitsValue(_)
DigitsValue(cs) ==
  IF cs = <<>> THEN 0
  ELSE DigitsValue(SubSeq(cs, 1, Len(cs) - 1)) * 10 + DigitValue(cs[Len(cs)])

AllDigits(cs) == \A k \in 1..Len(cs) : IsDigit(cs[k])

\* A number as JavaScript has it: NaN, or a value kept in tenths
NaN == [nan |-> TRUE, tenths |-> 0]

Num(t) == [nan |-> FALSE, tenths |-> t]

\* Number(text): white space is trimmed, the empty text is 0, a decimal
\* numeral with an optional sign is its value, anything else is NaN.
\* Numerals carry at most one decimal digit in the model (the value is kept
\* in tenths); exponents, hexadecimal numerals and Infinity do not occur.
Number(cs) ==
  LET t     == trim(cs)
      neg   == t # <<>> /\ Head(t) = "-"
      body  == IF t # <<>> /\ Head(t) \in {"-", "+"} THEN Tail(t) ELSE t
      dots  == {k \in 1..Len(body) : body[k] = "."}
      dot   == IF dots = {} THEN Len(body) + 1 ELSE CHOOSE k \in dots : \A j \in dots : k <= j
      whole == SubSeq(body, 1, dot - 1)
      frac  == SubSeq(body, dot + 1, Len(body))
      mag   == DigitsValue(whole) * 10 + (IF frac = <<>> THEN 0 ELSE DigitValue(frac[1]))
  IN  IF t = <<>> THEN Num(0)
      ELSE IF /\ AllDigits(whole) /\ AllDigits(frac)
              /\ Len(frac) <= 1
              /\ Len(whole) + Len(frac) > 0
           THEN Num(IF neg THEN -mag ELSE mag)
           ELSE NaN

\* A number is falsy when it is 0 or NaN
Falsy(n) == n.nan \/ n.tenths = 0

----------------------------------------------------------------------------
(* JSON.stringify and JSON.parse on the lists the application stores.  A   *)
(* JSON object is the sequence of its <<key, value>> members in the order  *)
(* of the object's keys; a key the object does not have is left out.       *)

HistoryKeys == <<"id", "when", "location", "ph", "temp", "rain", "topCrop">>

InputKeys == <<"location", "area", "soilType", "ph", "soilMoisture", "temperature",
               "rainfall", "irrigation", "season", "preference">>

stringifyObject(obj, keys) ==
  LET present == SelectSeq(keys, LAMBDA k : k \in DOMAIN obj)
  IN  [i \in 1..Len(present) |-> <<present[i], obj[present[i]]>>]

parseObject(members) ==
  [k \in {members[i][1] : i \in 1..Len(members)} |->
     members[CHOOSE i \in 1..Len(members) : members[i][1] = k][2]]

\* JSON.stringify(history), line 87
stringifyHistory(list) == [i \in 1..Len(list) |-> stringifyObject(list[i], HistoryKeys)]

\* JSON.parse(rawH), line 79
parseHistory(text) == [i \in 1..Len(text) |-> parseObject(text[i])]

\* JSON.stringify(updated), lines 114 and 125: { id, createdAt, inputs }
stringifyScenarios(list) ==
  [i \in 1..Len(list) |->
     << <<"id", list[i].id>>, <<"createdAt", list[i].createdAt>>,
        <<"inputs", stringifyObject(list[i].inputs, InputKeys)>> >>]

\* JSON.parse(rawS), line 77
parseScenarios(text) ==
  [i \in 1..Len(text) |->
     [id |-> text[i][1][2], createdAt |-> text[i][2][2], inputs |-> parseObject(text[i][3][2])]]

----------------------------------------------------------------------------
(* CropRecApp.  A localStorage key is <<>> when absent and <<text>> when   *)
(* set; the same holds for a queued state update and for the pending       *)
(* timer.  An event handler and the render it causes are one step; the     *)
(* history effect of that render is a step of its own, which React runs    *)
(* before the next event is handled.  shapData, chartData, modal, compare, *)
(* active and sidebarOpen are left out: no handler modelled here reads     *)
(* them.                                                                   *)

\* History entries kept, line 205
HistoryCap == 200

\* Submitted recommendation runs in one behaviour
MaxRuns == 2

\* An entry stored by an earlier session
OldEntry ==
  [id |-> 0, when |-> 0, location |-> "Agra, IN", ph |-> 65, temp |-> 260, rain |-> 300,
   topCrop |-> "Pulses"]

\* What 'croprec_history' may hold when the application starts: nothing,
\* the empty list, or a list an earlier session stored
BootHistories == { <<>>, << <<>> >>, << stringifyHistory(<<OldEntry>>) >> }

\* The load effect, lines 74-83: a stored text is truthy, also "[]"
LoadEffect ==
  /\ queuedS' = IF storageS # <<>> THEN <<parseScenarios(storageS[1])>> ELSE queuedS
  /\ queuedH' = IF storageH # <<>> THEN <<parseHistory(storageH[1])>> ELSE queuedH

\* The history effect storing only a history that has entries
SaveEffect_onlyNonEmpty ==
  storageH' = IF history # <<>> THEN <<stringifyHistory(history)>> ELSE storageH

\* The history effect, lines 86-88, with the history of the render it
\* belongs to
SaveEffect == storageH' = <<stringifyHistory(history)>>

\* The effects of the first render run in the order they are declared: the
\* load effect queues the stored lists, the history effect stores the
\* history of the first render, which is empty.
MountEffects ==
  /\ phase = "created"
  /\ LoadEffect
  /\ SaveEffect
  /\ phase' = "effects"
  /\ UNCHANGED <<strict, inputs, loading, results, history, savedScenarios, storageS,
                 timer, effectPending, clock, runs, log, bank, bootH, cleared, clears,
                 uploads, reader, alerts, compare>>
  /\ UNCHANGED scoreVars

\* Under React.StrictMode (main.jsx lines 6-10) a development build runs the
\* effects of a mounted component a second time, before the queued updates
\* are rendered.
StrictEffects ==
  /\ phase = "effects"
  /\ strict
  /\ LoadEffect
  /\ SaveEffect
  /\ phase' = "strict"
  /\ UNCHANGED <<strict, inputs, loading, results, history, savedScenarios, storageS,
                 timer, effectPending, clock, runs, log, bank, bootH, cleared, clears,
                 uploads, reader, alerts, compare>>
  /\ UNCHANGED scoreVars

\* The render of the updates the mount effects queued; a new history array
\* schedules the history effect.
MountRender ==
  /\ \/ phase = "effects" /\ ~strict
     \/ phase = "strict"
  /\ phase' = "ready"
  /\ history' = IF queuedH # <<>> THEN queuedH[1] ELSE history
  /\ savedScenarios' = IF queuedS # <<>> THEN queuedS[1] ELSE savedScenarios
  /\ effectPending' = (queuedH # <<>>)
  /\ queuedH' = <<>>
  /\ queuedS' = <<>>
  /\ UNCHANGED <<strict, inputs, loading, results, storageH, storageS,
                 timer, clock, runs, log, bank, bootH, cleared, clears,
                 uploads, reader, alerts, compare>>
  /\ UNCHANGED scoreVars

\* The history effect after a render in which history changed
HistoryEffect ==
  /\ phase = "ready"
  /\ effectPending
  /\ SaveEffect
  /\ effectPending' = FALSE
  /\ UNCHANGED <<phase, strict, inputs, loading, results, history, savedScenarios, storageS,
                 queuedH, queuedS, timer, clock, runs, log, bank, bootH, cleared, clears,
                 uploads, reader, alerts, compare>>
  /\ UNCHANGED scoreVars

\* The application is mounted and no effect is pending: the next event can
\* be handled
Idle == phase = "ready" /\ ~effectPending

\* The value a form field takes from a number (rainfall is kept in
\* millimetres, the other fields in tenths)
FieldNumber(name, n) == IF name = "rainfall" THEN n.tenths \div 10 ELSE n.tenths

\* The value a form field takes from a text
FieldText(name, value) == IF name = "soilType" THEN value ELSE Join(value)

\* lines 101-104
handleInputChange(name, value) ==
  /\ Idle
  /\ inputs' = [inputs EXCEPT ![name] =
                  IF name \in {"area", "temperature", "rainfall"}
                  THEN FieldNumber(name, Number(value))
                  ELSE FieldText(name, value)]
  /\ UNCHANGED <<phase, strict, loading, results, history, savedScenarios, storageH, storageS,
                 queuedH, queuedS, timer, effectPending, clock, runs, log, bank, bootH, cleared, clears,
                 uploads, reader, alerts, compare>>
  /\ UNCHANGED scoreVars

\* lines 106-108
handleRangeChange(name, value) ==
  /\ Idle
  /\ inputs' = [inputs EXCEPT ![name] = FieldNumber(name, Number(value))]
  /\ UNCHANGED <<phase, strict, loading, results, history, savedScenarios, storageH, storageS,
                 queuedH, queuedS, timer, effectPending, clock, runs, log, bank, bootH, cleared, clears,
                 uploads, reader, alerts, compare>>
  /\ UNCHANGED scoreVars

\* handleRecommend that leaves the results of the last run on screen
handleRecommend_keepsResults ==
  /\ Idle
  /\ ~loading
  /\ runs < MaxRuns
  /\ runs' = runs + 1
  /\ loading' = TRUE
  /\ timer' = <<[inputs |-> inputs, history |-> history]>>
  /\ UNCHANGED <<phase, strict, inputs, results, history, savedScenarios, storageH, storageS,
                 queuedH, queuedS, effectPending, clock, log, bank, bootH, cleared, clears,
                 uploads, reader, alerts, compare>>
  /\ UNCHANGED scoreVars

\* lines 170-180: the submit button is disabled while loading (line 451);
\* the timer callback closes over the inputs and the history of this render
handleRecommend ==
  /\ Idle
  /\ ~loading
  /\ runs < MaxRuns
  /\ runs' = runs + 1
  /\ loading' = TRUE
  /\ results' = <<>>
  /\ timer' = <<[inputs |-> inputs, history |-> history]>>
  /\ UNCHANGED <<phase, strict, inputs, history, savedScenarios, storageH, storageS,
                 queuedH, queuedS, effectPending, clock, log, bank, bootH, cleared, clears,
                 uploads, reader, alerts, compare>>
  /\ UNCHANGED scoreVars

\* The entry of lines 196-204; Date.now() and new Date() are the clock
historyEntry(in, recsOfRun, now) ==
  [id |-> now, when |-> now, location |-> in.location, ph |-> in.ph,
   temp |-> in.temperature, rain |-> in.rainfall,
   topCrop |-> IF recsOfRun # <<>> THEN recsOfRun[1].name ELSE "-"]

\* The timer callback with one crop table shared by all calls, scored and
\* sorted in place: the results of earlier calls are the same array
TimerFires_sharedTable ==
  /\ phase = "ready"
  /\ ~effectPending
  /\ timer # <<>>
  /\ LET closure == timer[1]
         out     == computeRecommendations(closure.inputs)
         entry   == historyEntry(closure.inputs, out, clock + 1)
     IN  /\ results' = out
         /\ history' = slice(<<entry>> \o closure.history, HistoryCap)
         /\ log' = [k \in 1..(Len(log) + 1) |->
                     [in  |-> IF k <= Len(log) THEN log[k].in ELSE closure.inputs,
                      out |-> out]]
         /\ bank' = sort(mapScoreCrop(closure.inputs))
  /\ clock' = clock + 1
  /\ loading' = FALSE
  /\ effectPending' = TRUE
  /\ timer' = <<>>
  /\ UNCHANGED <<phase, strict, inputs, savedScenarios, storageH, storageS,
                 queuedH, queuedS, runs, bootH, cleared, clears,
                 uploads, reader, alerts, compare>>
  /\ UNCHANGED scoreVars

\* The timer callback reading the form as it is when the timer fires
TimerFires_currentInputs ==
  /\ phase = "ready"
  /\ ~effectPending
  /\ timer # <<>>
  /\ LET closure == timer[1]
         out     == computeRecommendations(inputs)
         entry   == historyEntry(inputs, out, clock + 1)
     IN  /\ results' = out
         /\ history' = slice(<<entry>> \o closure.history, HistoryCap)
         /\ log' = Append(log, [in |-> inputs, out |-> out])
  /\ bank' = cropBank
  /\ clock' = clock + 1
  /\ loading' = FALSE
  /\ effectPending' = TRUE
  /\ timer' = <<>>
  /\ UNCHANGED <<phase, strict, inputs, savedScenarios, storageH, storageS,
                 queuedH, queuedS, runs, bootH, cleared, clears,
                 uploads, reader, alerts, compare>>
  /\ UNCHANGED scoreVars

\* lines 180-208, the timer callback: its state updates are rendered together
TimerFires ==
  /\ phase = "ready"
  /\ ~effectPending
  /\ timer # <<>>
  /\ LET closure == timer[1]
         out     == computeRecommendations(closure.inputs)
         entry   == historyEntry(closure.inputs, out, clock + 1)
     IN  /\ results' = out
         /\ history' = slice(<<entry>> \o closure.history, HistoryCap)
         /\ log' = Append(log, [in |-> closure.inputs, out |-> out])
  /\ bank' = cropBank
  /\ clock' = clock + 1
  /\ loading' = FALSE
  /\ effectPending' = TRUE
  /\ timer' = <<>>
  /\ UNCHANGED <<phase, strict, inputs, savedScenarios, storageH, storageS,
                 queuedH, queuedS, runs, bootH, cleared, clears,
                 uploads, reader, alerts, compare>>
  /\ UNCHANGED scoreVars

\* line 257; the Clear button is shown when history is not empty (line 587)
clearHistory ==
  /\ Idle
  /\ history # <<>>
  /\ history' = <<>>
  /\ effectPending' = TRUE
  /\ cleared' = IF timer # <<>>
                THEN cleared \cup {history[i].id : i \in 1..Len(history)}
                ELSE cleared
  /\ clears' = clears + 1
  /\ UNCHANGED <<phase, strict, inputs, loading, results, savedScenarios, storageH, storageS,
                 queuedH, queuedS, timer, clock, runs, log, bank, bootH,
                 uploads, reader, alerts, compare>>
  /\ UNCHANGED scoreVars

\* The values typed or chosen in the form
PhTexts == { <<"6",".","5">>, <<"5",".","5">> }

RainfallTexts == { <<"3","0","0">>, <<"6","0","0">> }

ChangeRainfall == \E v \in RainfallTexts : handleInputChange("rainfall", v)

ChangePh == \E v \in PhTexts : handleRangeChange("ph", v)

Init ==
  /\ AppCreated
  /\ strict \in BOOLEAN
  /\ storageH \in BootHistories
  /\ bootH = storageH
  /\ storageS = <<>>
  /\ scn = DefaultScenario
  /\ called = FALSE
  /\ terms = <<>>
  /\ scored = <<>>
  /\ recs = <<>>

Next ==
  \/ MountEffects
  \/ StrictEffects
  \/ MountRender
  \/ HistoryEffect
  \/ ChangeRainfall
  \/ ChangePh
  \/ handleRecommend
  \/ TimerFires
  \/ clearHistory

Spec == Init /\ [][Next]_vars

\* The timer callback can run: the application is mounted, the effects of
\* the last render have run and a timer is pending
TimerDue == phase = "ready" /\ ~effectPending /\ timer # <<>>

\* The timer is fired by the browser and the history effect is run by React:
\* neither is postponed for ever.  A step of Next that empties a pending
\* timer is a TimerFires step and TimerFires is enabled whenever TimerDue
\* holds, so the first condition is weak fairness of TimerFires.
FairSpec == Spec /\ WF_timer(TimerDue /\ timer' = <<>>) /\ WF_vars(HistoryEffect)

----------------------------------------------------------------------------
(* Saved scenarios.  The handlers write 'croprec_scenarios' themselves;    *)
(* Date.now() is the clock, which has advanced between two clicks.         *)

\* Scenarios kept, line 112
ScenarioCap == 50

\* saveScenario calls in one behaviour
MaxSaves == 52

\* The scenarios that get deleted are among the first ones: their ids are
\* at most this
MaxDeleteId == 2

\* A scenario stored by an earlier session
OldScenario == [id |-> 0, createdAt |-> 0, inputs |-> InitialInputs]

\* What 'croprec_scenarios' may hold when the application starts
BootScenarios == { <<>>, << <<>> >>, << stringifyScenarios(<<OldScenario>>) >> }

\* savedScenarios.filter(s => s.id !== id), line 123
filterOthers(list, id) == SelectSeq(list, LAMBDA s : s.id # id)

\* lines 110-115
saveScenario ==
  /\ Idle
  /\ clock < MaxSaves
  /\ LET toSave  == [id |-> clock + 1, createdAt |-> clock + 1, inputs |-> inputs]
         updated == slice(<<toSave>> \o savedScenarios, ScenarioCap)
     IN  /\ savedScenarios' = updated
         /\ storageS' = <<stringifyScenarios(updated)>>
  /\ clock' = clock + 1
  /\ UNCHANGED <<phase, strict, inputs, loading, results, history, storageH,
                 queuedH, queuedS, timer, effectPending, runs, log, bank, bootH,
                 cleared, clears, uploads, reader, alerts, compare>>
  /\ UNCHANGED scoreVars

\* deleteScenario that leaves 'croprec_scenarios' as it is
deleteScenario_stateOnly(id) ==
  /\ Idle
  /\ savedScenarios' = filterOthers(savedScenarios, id)
  /\ UNCHANGED <<phase, strict, inputs, loading, results, history, storageH, storageS,
                 queuedH, queuedS, timer, effectPending, clock, runs, log, bank, bootH,
                 cleared, clears, uploads, reader, alerts, compare>>
  /\ UNCHANGED scoreVars

\* lines 122-126
deleteScenario(id) ==
  /\ Idle
  /\ LET updated == filterOthers(savedScenarios, id)
     IN  /\ savedScenarios' = updated
         /\ storageS' = <<stringifyScenarios(updated)>>
  /\ UNCHANGED <<phase, strict, inputs, loading, results, history, storageH,
                 queuedH, queuedS, timer, effectPending, clock, runs, log, bank, bootH,
                 cleared, clears, uploads, reader, alerts, compare>>
  /\ UNCHANGED scoreVars

\* The delete button of a listed scenario, line 554
DeleteScenario ==
  \E k \in 1..Len(savedScenarios) :
    /\ savedScenarios[k].id <= MaxDeleteId
    /\ deleteScenario(savedScenarios[k].id)

\* 'Clear all', line 540, shown when the list is not empty
ClearAll ==
  /\ Idle
  /\ savedScenarios # <<>>
  /\ savedScenarios' = <<>>
  /\ storageS' = <<>>
  /\ UNCHANGED <<phase, strict, inputs, loading, results, history, storageH,
                 queuedH, queuedS, timer, effectPending, clock, runs, log, bank, bootH,
                 cleared, clears, uploads, reader, alerts, compare>>
  /\ UNCHANGED scoreVars

InitScenarios ==
  /\ AppCreated
  /\ strict \in BOOLEAN
  /\ storageH = <<>>
  /\ bootH = storageH
  /\ storageS \in BootScenarios
  /\ scn = DefaultScenario
  /\ called = FALSE
  /\ terms = <<>>
  /\ scored = <<>>
  /\ recs = <<>>

NextScenarios ==
  \/ MountEffects
  \/ StrictEffects
  \/ MountRender
  \/ HistoryEffect
  \/ saveScenario
  \/ DeleteScenario
  \/ ClearAll

SpecScenarios == InitScenarios /\ [][NextScenarios]_vars

----------------------------------------------------------------------------
(* CSV upload.  A text is a sequence of characters; undefined is <<>> and  *)
(* a defined value v is <<v>>.  One FileReader reads at a time.            *)

\* handleUploadFile calls in one behaviour
MaxUploads == 2

\* String.prototype.split with a one-character separator
RECURSIVE splitFrom(_, _, _)
splitFrom(cs, sep, cur) ==
  IF cs = <<>> THEN <<cur>>
  ELSE IF Head(cs) = sep THEN <<cur>> \o splitFrom(Tail(cs), sep, <<>>)
  ELSE splitFrom(Tail(cs), sep, Append(cur, Head(cs)))

split(cs, sep) == splitFrom(cs, sep, <<>>)

\* split(/\r?\n/), line 218: a carriage return before the line feed belongs
\* to the separator
splitLines(cs) ==
  LET parts == split(cs, "\n")
  IN  [k \in 1..Len(parts) |->
         IF k < Len(parts) /\ parts[k] # <<>> /\ parts[k][Len(parts[k])] = "\r"
         THEN SubSeq(parts[k], 1, Len(parts[k]) - 1)
         ELSE parts[k]]

\* lines 218-219: the rows of the text, the header row first
rowsOf(text) == splitLines(trim(text))

headerOf(text) == split(rowsOf(text)[1], ",")

\* idx[name] of line 221, counted from 1; 0 when the header has no such
\* column (a later column of the same name wins)
idxOf(header, name) ==
  LET ks == {k \in 1..Len(header) : Join(trim(header[k])) = name}
  IN  IF ks = {} THEN 0 ELSE CHOOSE k \in ks : \A j \in ks : j <= k

\* "location" in idx, line 222
hasLocation(text) == idxOf(headerOf(text), "location") # 0

\* rows[0]?.split(","), line 223, after the header was shifted out
firstOf(text) ==
  IF Len(rowsOf(text)) >= 2 THEN <<split(rowsOf(text)[2], ",")>> ELSE <<>>

\* first[idx.name]
cellOf(text, name) ==
  LET first == firstOf(text)[1]
      k     == idxOf(headerOf(text), name)
  IN  IF k = 0 \/ k > Len(first) THEN <<>> ELSE <<first[k]>>

NumberFields == {"area", "ph", "temperature", "rainfall"}

\* The keys of the prefill object, lines 226-234
PrefillFields == {"location", "area", "soilType", "ph", "temperature", "rainfall",
                  "irrigation", "season", "preference"}

\* first[idx.name] || inputs.name
textCell(text, name, in) ==
  LET cell == cellOf(text, name)
  IN  IF cell = <<>> \/ cell[1] = <<>> THEN in[name] ELSE FieldText(name, cell[1])

\* Number(first[idx.name] ?? inputs.name) || inputs.name
numberCell(text, name, in) ==
  LET cell == cellOf(text, name)
  IN  IF cell = <<>> \/ Falsy(Number(cell[1])) THEN in[name]
      ELSE FieldNumber(name, Number(cell[1]))

\* lines 225-235
prefill(text, in) ==
  [name \in PrefillFields |->
     IF name \in NumberFields THEN numberCell(text, name, in) ELSE textCell(text, name, in)]

\* 'ph,area\n7.0,2': no 'location' column
NoLocationFile ==
  <<"p","h",",","a","r","e","a","\n","7",".","0",",","2">>

\* 'location,ph, rainfall ,area\r\nDelhi,7.0,abc,0\r\nPune,6,1,1\r\n': a text that is not a number, a zero, a padded header cell
FullFile ==
  <<"l","o","c","a","t","i","o","n",",","p","h",","," ","r","a","i","n","f","a","l","l"," ",",","a","r","e","a","\r","\n","D","e","l","h","i",",","7",".","0",",","a","b","c",",","0","\r","\n","P","u","n","e",",","6",",","1",",","1","\r","\n">>

\* 'location,ph\n': a header and no data row
HeaderOnlyFile ==
  <<"l","o","c","a","t","i","o","n",",","p","h","\n">>

\* 'location,soilType,ph\nPune': a first row shorter than the header
ShortRowFile ==
  <<"l","o","c","a","t","i","o","n",",","s","o","i","l","T","y","p","e",",","p","h","\n","P","u","n","e">>

Files == {NoLocationFile, FullFile, HeaderOnlyFile, ShortRowFile}

\* lines 211-215 and 243: a file was chosen; onload closes over the inputs
\* of this render
handleUploadFile(file) ==
  /\ Idle
  /\ reader = <<>>
  /\ uploads < MaxUploads
  /\ uploads' = uploads + 1
  /\ reader' = <<[text |-> file, inputs |-> inputs]>>
  /\ UNCHANGED <<phase, strict, inputs, loading, results, history, savedScenarios,
                 storageH, storageS, queuedH, queuedS, timer, effectPending, clock, runs,
                 log, bank, bootH, cleared, clears, alerts, compare>>
  /\ UNCHANGED scoreVars

UploadFile == \E file \in Files : handleUploadFile(file)

\* reader.onload, lines 215-242
ReaderLoads ==
  /\ Idle
  /\ reader # <<>>
  /\ LET text == reader[1].text
         in   == reader[1].inputs
     IN  IF ~hasLocation(text)
         THEN /\ alerts' = <<"CSV parse error: CSV must include a 'location' column">>
              /\ UNCHANGED inputs
         ELSE IF firstOf(text) # <<>>
         THEN /\ inputs' = prefill(text, in)
              /\ alerts' = <<"Loaded first row into form (preview). Rows: ",
                             Len(rowsOf(text)) - 1>>
         ELSE UNCHANGED <<inputs, alerts>>
  /\ reader' = <<>>
  /\ UNCHANGED <<phase, strict, loading, results, history, savedScenarios,
                 storageH, storageS, queuedH, queuedS, timer, effectPending, clock, runs,
                 log, bank, bootH, cleared, clears, uploads, compare>>
  /\ UNCHANGED scoreVars

InitUpload ==
  /\ AppCreated
  /\ strict \in BOOLEAN
  /\ storageH = <<>>
  /\ bootH = storageH
  /\ storageS = <<>>
  /\ scn = DefaultScenario
  /\ called = FALSE
  /\ terms = <<>>
  /\ scored = <<>>
  /\ recs = <<>>

NextUpload ==
  \/ MountEffects
  \/ StrictEffects
  \/ MountRender
  \/ HistoryEffect
  \/ ChangeRainfall
  \/ ChangePh
  \/ UploadFile
  \/ ReaderLoads

SpecUpload == InitUpload /\ [][NextUpload]_vars

----------------------------------------------------------------------------
(* The compare drawer.  The Compare button of a result card toggles that   *)
(* recommendation; the drawer's close button empties the list.             *)

\* Crops compared at most, line 252
CompareCap == 3

\* prev.items.find(i => i.name === rec.name), line 251
exists(items, rec) == \E k \in 1..Len(items) : items[k].name = rec.name

\* prev.items.filter(i => i.name !== rec.name), line 252
filterOtherNames(items, rec) == SelectSeq(items, LAMBDA i : i.name # rec.name)

\* toggleCompare that appends without cutting the list
toggleCompare_noCap(rec) ==
  /\ Idle
  /\ compare' = [open  |-> TRUE,
                 items |-> IF exists(compare.items, rec)
                           THEN filterOtherNames(compare.items, rec)
                           ELSE Append(compare.items, rec)]
  /\ UNCHANGED <<phase, strict, inputs, loading, results, history, savedScenarios,
                 storageH, storageS, queuedH, queuedS, timer, effectPending, clock, runs,
                 log, bank, bootH, cleared, clears, uploads, reader, alerts>>
  /\ UNCHANGED scoreVars

\* lines 249-255
toggleCompare(rec) ==
  /\ Idle
  /\ compare' = [open  |-> TRUE,
                 items |-> IF exists(compare.items, rec)
                           THEN filterOtherNames(compare.items, rec)
                           ELSE slice(Append(compare.items, rec), CompareCap)]
  /\ UNCHANGED <<phase, strict, inputs, loading, results, history, savedScenarios,
                 storageH, storageS, queuedH, queuedS, timer, effectPending, clock, runs,
                 log, bank, bootH, cleared, clears, uploads, reader, alerts>>
  /\ UNCHANGED scoreVars

\* The Compare button of a result card, line 493
ToggleCompare == \E k \in 1..Len(results) : toggleCompare(results[k])

\* The close button of the drawer, line 727, shown while it is open
CloseCompare ==
  /\ Idle
  /\ compare.open
  /\ compare' = [open |-> FALSE, items |-> <<>>]
  /\ UNCHANGED <<phase, strict, inputs, loading, results, history, savedScenarios,
                 storageH, storageS, queuedH, queuedS, timer, effectPending, clock, runs,
                 log, bank, bootH, cleared, clears, uploads, reader, alerts>>
  /\ UNCHANGED scoreVars

InitCompare ==
  /\ AppCreated
  /\ strict \in BOOLEAN
  /\ storageH = <<>>
  /\ bootH = storageH
  /\ storageS = <<>>
  /\ scn = DefaultScenario
  /\ called = FALSE
  /\ terms = <<>>
  /\ scored = <<>>
  /\ recs = <<>>

NextCompare ==
  \/ MountEffects
  \/ StrictEffects
  \/ MountRender
  \/ HistoryEffect
  \/ ChangeRainfall
  \/ handleRecommend
  \/ TimerFires
  \/ ToggleCompare
  \/ CloseCompare

SpecCompare == InitCompare /\ [][NextCompare]_vars

----------------------------------------------------------------------------
(* Properties of the application                                           *)

C15_HistorySurvivesMount ==
  (Idle /\ runs = 0 /\ clears = 0 /\ bootH # <<>> /\ bootH[1] # <<>>)
    => (history = parseHistory(bootH[1]) /\ storageH = bootH)

\* C16: once the application is mounted, 'croprec_scenarios' represents
\* savedScenarios: the key is absent or holds the empty list exactly when
\* the state is empty, and otherwise parses to the state.  The list is
\* newest first and holds at most 50 scenarios; a save into a full list
\* drops the oldest.
C16_ScenariosStored ==
  /\ [](phase = "ready" =>
          /\ (storageS = <<>> \/ storageS[1] = <<>>) <=> (savedScenarios = <<>>)
          /\ storageS # <<>> => parseScenarios(storageS[1]) = savedScenarios
          /\ Len(savedScenarios) <= ScenarioCap
          /\ \A i, j \in 1..Len(savedScenarios) :
               i < j => savedScenarios[i].id > savedScenarios[j].id)
  /\ [][(Len(savedScenarios) = ScenarioCap /\ clock' = clock + 1)
          => /\ Len(savedScenarios') = ScenarioCap
             /\ savedScenarios'[1].id = clock'
             /\ \A k \in 2..ScenarioCap : savedScenarios'[k] = savedScenarios[k - 1]]_vars

\* The 51st scenario has been saved: the list holds the 50 newest
C16_Witness ==
  /\ clock = ScenarioCap + 1
  /\ Len(savedScenarios) = ScenarioCap
  /\ savedScenarios[1].id = ScenarioCap + 1
  /\ savedScenarios[ScenarioCap].id = 2
  /\ storageS = <<stringifyScenarios(savedScenarios)>>

\* The row of an uploaded text gives a value for a form field
rowGives(text, name) ==
  LET cell == cellOf(text, name)
  IN  /\ name \in PrefillFields
      /\ cell # <<>>
      /\ IF name \in NumberFields THEN ~Falsy(Number(cell[1])) ELSE cell[1] # <<>>

rowValue(text, name) ==
  IF name \in NumberFields THEN FieldNumber(name, Number(cellOf(text, name)[1]))
  ELSE FieldText(name, cellOf(text, name)[1])

\* C17: when an uploaded text has been read: without a 'location' column an
\* error is reported and the form is unchanged; with one and a first row,
\* every form field has the value the row gives for it, or else its value
\* from before.
C17_UploadPrefill ==
  [][(reader # <<>> /\ reader' = <<>>) =>
       LET text == reader[1].text
       IN  IF ~hasLocation(text)
           THEN alerts' # <<>> /\ Len(alerts') = 1 /\ inputs' = inputs
           ELSE firstOf(text) # <<>> =>
                  \A name \in DOMAIN inputs :
                    /\ name \in DOMAIN inputs'
                    /\ inputs'[name] = IF rowGives(text, name) THEN rowValue(text, name)
                                       ELSE inputs[name]]_vars

\* C18: when no effect is pending, 'croprec_history' holds the JSON text of
\* the history state.
C18_StorageMatchesHistory == Idle => storageH = <<stringifyHistory(history)>>

\* After a run and clearHistory the stored text is that of the empty list
C18_Witness ==
  /\ Idle
  /\ clock >= 1
  /\ clears >= 1
  /\ history = <<>>
  /\ storageH = << <<>> >>

\* C19: an entry removed by clearHistory while a run was pending is not in
\* the history afterwards.
C19_ClearNotUndone == \A i \in 1..Len(history) : history[i].id \notin cleared

\* The inputs a run can be submitted with
SubmittedInputs ==
  { [InitialInputs EXCEPT !.ph = p, !.rainfall = r] : p \in {65, 55}, r \in {300, 600} }

\* What computeRecommendations returns for each of them
RecommendationsFor == [i \in SubmittedInputs |-> computeRecommendations(i)]

\* C20: a submitted run completes: loading becomes false and results are
\* the three recommendations for the inputs as they were submitted.
C20_RunCompletes ==
  \A i \in SubmittedInputs :
    (timer # <<>> /\ timer[1].inputs = i)
      ~> (~loading /\ Len(results) = TopN /\ results = RecommendationsFor[i])

\* A run is pending and the form has been edited since it was submitted
C20_Witness ==
  /\ timer # <<>>
  /\ loading
  /\ inputs # timer[1].inputs
  /\ computeRecommendations(inputs) # computeRecommendations(timer[1].inputs)

\* C21: the step in which a run completes puts one entry in front of the
\* history as it was, cut to 200 entries; the entry names the first crop of
\* the results of that run and carries the ph, temperature and rainfall the
\* run scored.  History is newest first and holds at most 200 entries.
C21_OneEntryPerRun ==
  /\ [](/\ Len(history) <= HistoryCap
        /\ \A i, j \in 1..Len(history) : i < j => history[i].id > history[j].id)
  /\ [][(timer # <<>> /\ timer' = <<>>) =>
          /\ history' # <<>>
          /\ results' # <<>>
          /\ history'[1].topCrop = results'[1].name
          /\ history'[1].ph = log'[Len(log')].in.ph
          /\ history'[1].temp = log'[Len(log')].in.temperature
          /\ history'[1].rain = log'[Len(log')].in.rainfall
          /\ history' = slice(<<history'[1]>> \o history, HistoryCap)]_vars

\* C22: while loading is true the results list is empty; results become
\* non-empty only in a step that takes loading from true to false.
C22_NoResultsWhileLoading ==
  /\ [](loading => results = <<>>)
  /\ [][(results' # results /\ results' # <<>>) => (loading /\ ~loading')]_vars

\* A second run is pending: the results of the first run were cleared
C22_Witness ==
  /\ loading
  /\ timer # <<>>
  /\ results = <<>>
  /\ runs = 2
  /\ Len(log) = 1

\* The crops compared
CompareNames == {compare.items[k].name : k \in 1..Len(compare.items)}

\* A step that changes the drawer and is not its closing
Toggled == compare' # compare /\ compare' # [open |-> FALSE, items |-> <<>>]

\* C23: the compare list holds at most 3 items and no two of the same crop.
\* A toggle of a listed crop removes it, a toggle of another crop adds it at
\* the end if fewer than 3 are listed, and the drawer is open afterwards.
C23_CompareList ==
  /\ [](/\ Len(compare.items) <= CompareCap
        /\ \A i, j \in 1..Len(compare.items) :
             compare.items[i].name = compare.items[j].name => i = j)
  /\ [][Toggled =>
          /\ compare'.open
          /\ \E k \in 1..Len(results) :
               LET rec == results[k]
               IN  IF rec.name \in CompareNames
                   THEN compare'.items = SelectSeq(compare.items, LAMBDA i : i.name # rec.name)
                   ELSE compare'.items = IF Len(compare.items) < CompareCap
                                         THEN Append(compare.items, rec)
                                         ELSE compare.items]_vars

\* Three crops are listed and the results offer a fourth one
C23_Witness ==
  /\ compare.open
  /\ Len(compare.items) = CompareCap
  /\ \E k \in 1..Len(results) : results[k].name \notin CompareNames

====
